---- MODULE Spec2Model ----
(***************************************************************************)
(* Receipt-Classification (SplitSmart): the assignment ledger, the         *)
(* operation applier inside processSplitCommand, the receipt normaliser    *)
(* inside parseReceiptImage, the Summary calculation, and the session      *)
(* state of App with its two asynchronous handlers (handleFileUpload,      *)
(* handleSendMessage).                                                     *)
(*                                                                         *)
(* Numbers: JavaScript doubles are modelled as exact rationals <<n, d>>    *)
(* with d > 0 in lowest terms; prices and receipt charges are integers.    *)
(* Objects: a JavaScript object with string keys is modelled as the        *)
(* sequence of its own properties in Object.keys order.  The ledger        *)
(* (Assignments) is a function from its own keys to such property lists;   *)
(* ledger objects live in a heap so that object identity is visible.       *)
(***************************************************************************)
EXTENDS Integers, Sequences, FiniteSets, TLC

\* ---------------------------------------------------------------- bounds
MaxOps == 2          \* longest operation batch the interpreter returns (SpecApply)
MaxCommands == 2     \* commands sent in one session
MaxUploads == 2      \* receipt uploads started in one session

\* ---------------------------------------------------------------- values
\* The JavaScript value undefined, where a string is expected.
Undefined == "<undefined>"

\* Person names the interpreter may return. "2" is a canonical array index.
Persons == {"Tom", "Sam", "2"}

\* People arrays the interpreter may return for an operation.
PeopleLists ==
  { <<>>, <<"Tom">>, <<"Tom", "Sam">>, <<"Tom", "2">>, <<"Tom", "Tom">>,
    <<"Sam", "Tom", "2">> }

\* Item ids the interpreter may name: two real ones and a hallucinated one.
OpItemIds == {"item-0", "item-1", "item-9"}

\* ---------------------------------------------------------------- rationals
RECURSIVE Gcd(_, _)
Gcd(a, b) == IF b = 0 THEN a ELSE Gcd(b, a % b)

Abs(a) == IF a < 0 THEN -a ELSE a

\* <<n, d>> in lowest terms with d > 0 (d # 0 is required).
Norm(n, d) ==
  LET g == Gcd(Abs(n), Abs(d))
      s == IF d < 0 THEN -1 ELSE 1
  IN <<(s * n) \div g, (s * d) \div g>>

RAdd(x, y) == Norm(x[1] * y[2] + y[1] * x[2], x[2] * y[2])
RMul(x, y) == Norm(x[1] * y[1], x[2] * y[2])
RDiv(x, y) == Norm(x[1] * y[2], x[2] * y[1])
RInt(n) == <<n, 1>>
RZero == <<0, 1>>
RLess(x, y) == x[1] * y[2] < y[1] * x[2]

\* ---------------------------------------------------------------- objects
\* An object is a sequence of [key, val] in own-property order.
Keys(obj) == [i \in 1..Len(obj) |-> obj[i].key]
KeySet(obj) == {obj[i].key : i \in 1..Len(obj)}
HasKey(obj, k) == k \in KeySet(obj)
IndexOfKey(obj, k) == CHOOSE i \in 1..Len(obj) : obj[i].key = k
ValueOf(obj, k) == obj[IndexOfKey(obj, k)].val

\* The array index a property key denotes, or -1: ECMAScript lists an
\* object's integer-like keys first, in ascending order, before its string
\* keys in insertion order (OrdinaryOwnPropertyKeys).
ArrayIndex(k) == CASE k = "2" -> 2 [] k = "10" -> 10 [] OTHER -> -1

\* obj[k] = v
SetProperty(obj, k, v) ==
  IF HasKey(obj, k)
  THEN [i \in 1..Len(obj) |-> IF obj[i].key = k THEN [key |-> k, val |-> v] ELSE obj[i]]
  ELSE IF ArrayIndex(k) >= 0
  THEN LET before == SelectSeq(obj, LAMBDA p : ArrayIndex(p.key) >= 0 /\ ArrayIndex(p.key) < ArrayIndex(k))
           after == SubSeq(obj, Len(before) + 1, Len(obj))
       IN before \o <<[key |-> k, val |-> v]>> \o after
  ELSE Append(obj, [key |-> k, val |-> v])

\* ---------------------------------------------------------------- operations
\* One element of parsed.operations as the interpreter returns it. itemId is
\* a string or Undefined; people is an array when hasPeople, else undefined.
Op(action, itemId, hasPeople, people) ==
  [action |-> action, itemId |-> itemId, hasPeople |-> hasPeople, people |-> people]

Assign(itemId, people) == Op("assign", itemId, TRUE, people)
Clear(itemId) == Op("clear", itemId, FALSE, <<>>)

\* The operations the interpreter may return: well-formed ones, and ones
\* with a missing itemId, a missing people field or an unknown action.
Operations ==
  { Assign(i, pl) : i \in OpItemIds, pl \in PeopleLists }
    \cup { Clear(i) : i \in OpItemIds }
    \cup { Op("assign", "item-0", FALSE, <<>>),
           Assign(Undefined, <<"Tom">>), Clear(Undefined),
           Op("split", "item-0", TRUE, <<"Sam", "Tom">>) }

\* Sequences over S of length at most n.
RECURSIVE SeqsUpTo(_, _)
SeqsUpTo(S, n) ==
  IF n = 0 THEN {<<>>}
  ELSE LET shorter == SeqsUpTo(S, n - 1)
       IN shorter \cup { Append(q, x) : q \in {r \in shorter : Len(r) = n - 1}, x \in S }

\* JSON.parse(response.text || "{}"): operations is an array or absent.
Reply(hasOperations, operations) ==
  [hasOperations |-> hasOperations, operations |-> operations]

Replies(n) == { Reply(TRUE, ops) : ops \in SeqsUpTo(Operations, n) } \cup { Reply(FALSE, <<>>) }

\* ---------------------------------------------------------------- ledger
\* The ledger {} of useState<Assignments>({}).
EmptyLedger == [k \in {} |-> <<>>]

\* ToPropertyKey: obj[undefined] addresses the own key "undefined".
PropertyKey(itemId) == IF itemId = Undefined THEN "undefined" ELSE itemId

\* delete ledger[key]
DeleteKey(ledger, key) == [k \in (DOMAIN ledger) \ {key} |-> ledger[k]]

\* ledger[key] = entry
SetKey(ledger, key, entry) ==
  [k \in (DOMAIN ledger) \cup {key} |-> IF k = key THEN entry ELSE ledger[k]]

\* Mutant of ShareOf: the share of one person taken as the head count.
ShareOfHeadCount(people) == Norm(Len(people), 1)

\* const share = 1.0 / op.people.length
ShareOf(people) == Norm(1, Len(people))

\* newAssignments[op.itemId] = {}; op.people.forEach(person => ...[person] = share)
RECURSIVE FillEntry(_, _, _)
FillEntry(entry, people, share) ==
  IF people = <<>> THEN entry
  ELSE FillEntry(SetProperty(entry, Head(people), share), Tail(people), share)

\* Mutants of ApplyOp: an assign that patches the prior entry instead of
\* replacing it; a clear that leaves an empty entry behind; an assign that
\* does not test people.length.
ApplyOpMerging(ledger, op) ==
  IF op.action = "clear" THEN DeleteKey(ledger, PropertyKey(op.itemId))
  ELSE IF op.action = "assign" /\ op.hasPeople /\ Len(op.people) > 0
  THEN LET key == PropertyKey(op.itemId)
           prior == IF key \in DOMAIN ledger THEN ledger[key] ELSE <<>>
       IN SetKey(ledger, key, FillEntry(prior, op.people, ShareOf(op.people)))
  ELSE ledger

ApplyOpClearLeavesEntry(ledger, op) ==
  IF op.action = "clear"
  THEN IF PropertyKey(op.itemId) \in DOMAIN ledger
       THEN SetKey(ledger, PropertyKey(op.itemId), <<>>) ELSE ledger
  ELSE IF op.action = "assign" /\ op.hasPeople /\ Len(op.people) > 0
  THEN SetKey(ledger, PropertyKey(op.itemId), FillEntry(<<>>, op.people, ShareOf(op.people)))
  ELSE ledger

ApplyOpNoLengthTest(ledger, op) ==
  IF op.action = "clear" THEN DeleteKey(ledger, PropertyKey(op.itemId))
  ELSE IF op.action = "assign" /\ op.hasPeople
  THEN SetKey(ledger, PropertyKey(op.itemId), FillEntry(<<>>, op.people, <<1, 1>>))
  ELSE ledger

\* The body of parsed.operations.forEach: one operation on newAssignments.
ApplyOp(ledger, op) ==
  IF op.action = "clear" THEN DeleteKey(ledger, PropertyKey(op.itemId))
  ELSE IF op.action = "assign" /\ op.hasPeople /\ Len(op.people) > 0
  THEN SetKey(ledger, PropertyKey(op.itemId), FillEntry(<<>>, op.people, ShareOf(op.people)))
  ELSE ledger

\* Mutant of ApplyOperations: the batch applied last-to-first.
RECURSIVE ApplyOperationsReversed(_, _)
ApplyOperationsReversed(ledger, ops) ==
  IF ops = <<>> THEN ledger
  ELSE ApplyOp(ApplyOperationsReversed(ledger, Tail(ops)), Head(ops))

\* parsed.operations.forEach(...): the operations in array order.
RECURSIVE ApplyOperations(_, _)
ApplyOperations(ledger, ops) ==
  IF ops = <<>> THEN ledger
  ELSE ApplyOperations(ApplyOp(ledger, Head(ops)), Tail(ops))

\* JSON.stringify then JSON.parse of one entry: the properties are written
\* in own-key order and defined again in that order on a new object; a
\* finite number is written in its shortest round-trip form and reads back
\* as the same number.
RECURSIVE JsonEntry(_, _)
JsonEntry(entry, acc) ==
  IF entry = <<>> THEN acc
  ELSE JsonEntry(Tail(entry), SetProperty(acc, Head(entry).key, Head(entry).val))

\* JSON.parse(JSON.stringify(currentAssignments))
JsonRoundTrip(ledger) == [k \in DOMAIN ledger |-> JsonEntry(ledger[k], <<>>)]

\* if (parsed.operations) { parsed.operations.forEach(...) }
ApplyReply(ledger, reply) ==
  IF reply.hasOperations THEN ApplyOperations(ledger, reply.operations) ELSE ledger

\* The assignments processSplitCommand returns, as a value: the operations
\* applied to the copy of currentAssignments.
ProcessSplitCommand(currentAssignments, reply) ==
  ApplyReply(JsonRoundTrip(currentAssignments), reply)

\* ---------------------------------------------------------------- receipts
\* What JSON.parse(text) of the recognizer's answer may be. has names the
\* numeric fields that are present; an absent field's slot is not read.
Raw(items, has, subtotal, tax, tip, total) ==
  [items |-> items, has |-> has, subtotal |-> subtotal, tax |-> tax, tip |-> tip, total |-> total]

RawItem(name, price) == [name |-> name, price |-> price]

AllFields == {"subtotal", "tax", "tip", "total"}

RawReceipts ==
  { Raw(<<RawItem("Burger", 10), RawItem("Fries", 4)>>, AllFields, 14, 7, 2, 23),
    Raw(<<RawItem("Water", 0)>>, {"total"}, 0, 0, 0, 3),
    Raw(<<RawItem("Beer", 6), RawItem("Wine", 6), RawItem("Tap", 0)>>,
        {"subtotal", "tax", "total"}, 0, 3, 0, 15) }

\* Mutant of ItemId: one-based numbering.
ItemIdOneBased(index) == "item-" \o ToString(index + 1)

\* `item-${index}`
ItemId(index) == "item-" \o ToString(index)

\* data.<field> || 0
OrZero(raw, field) == IF field \in raw.has /\ raw[field] # 0 THEN raw[field] ELSE 0

\* The value parseReceiptImage returns for the recognizer's data.
NormalizeReceipt(raw) ==
  [items |-> [i \in 1..Len(raw.items) |->
                [id |-> ItemId(i - 1), name |-> raw.items[i].name, price |-> raw.items[i].price]],
   subtotal |-> OrZero(raw, "subtotal"),
   tax |-> OrZero(raw, "tax"),
   tip |-> OrZero(raw, "tip"),
   total |-> OrZero(raw, "total")]

\* ---------------------------------------------------------------- summary
PersonSummary(name, itemsTotal, taxShare, tipShare, total) ==
  [name |-> name, itemsTotal |-> itemsTotal, taxShare |-> taxShare,
   tipShare |-> tipShare, total |-> total]

\* if (!peopleMap[person]) {...}; peopleMap[person].itemsTotal += cost
AddCost(peopleMap, person, cost) ==
  LET row == IF HasKey(peopleMap, person) THEN ValueOf(peopleMap, person)
             ELSE PersonSummary(person, RZero, RZero, RZero, RZero)
  IN SetProperty(peopleMap, person, [row EXCEPT !.itemsTotal = RAdd(@, cost)])

\* people.forEach(person => ...) for one item; itemAssigns in own-key order.
RECURSIVE AddItem(_, _, _)
AddItem(peopleMap, price, itemAssigns) ==
  IF itemAssigns = <<>> THEN peopleMap
  ELSE AddItem(AddCost(peopleMap, Head(itemAssigns).key,
                       RMul(RInt(price), Head(itemAssigns).val)),
               price, Tail(itemAssigns))

\* receiptData.items.forEach(item => ...); assignments[item.id] || {}
RECURSIVE AddItems(_, _, _)
AddItems(peopleMap, items, ledger) ==
  IF items = <<>> THEN peopleMap
  ELSE LET item == Head(items)
           itemAssigns == IF item.id \in DOMAIN ledger THEN ledger[item.id] ELSE <<>>
       IN AddItems(AddItem(peopleMap, item.price, itemAssigns), Tail(items), ledger)

\* Mutant of SafeSubtotal: the denominator taken from the listed item prices.
RECURSIVE PriceSum(_)
PriceSum(items) == IF items = <<>> THEN 0 ELSE Head(items).price + PriceSum(Tail(items))

SafeSubtotalFromItems(receipt) ==
  IF PriceSum(receipt.items) # 0 THEN PriceSum(receipt.items) ELSE 1

\* const safeSubtotal = receiptData.subtotal || 1
SafeSubtotal(receipt) == IF receipt.subtotal # 0 THEN receipt.subtotal ELSE 1

\* The tax, tip and total of one person.
Prorate(row, receipt) ==
  LET ratio == RDiv(row.itemsTotal, RInt(SafeSubtotal(receipt)))
      taxShare == RMul(RInt(receipt.tax), ratio)
      tipShare == RMul(RInt(receipt.tip), ratio)
  IN PersonSummary(row.name, row.itemsTotal, taxShare, tipShare,
                   RAdd(RAdd(row.itemsTotal, taxShare), tipShare))

\* Array.prototype.sort with (a, b) => b.total - a.total: stable, so a row
\* goes after every row already placed whose total is not smaller.
RECURSIVE SortByTotal(_, _)
SortByTotal(rows, sorted) ==
  IF rows = <<>> THEN sorted
  ELSE LET r == Head(rows)
           ahead == { i \in 0..Len(sorted) :
                        \A j \in 1..i : ~RLess(sorted[j].total, r.total) }
           n == CHOOSE i \in ahead : \A j \in ahead : j <= i
       IN SortByTotal(Tail(rows),
                      SubSeq(sorted, 1, n) \o <<r>> \o SubSeq(sorted, n + 1, Len(sorted)))

\* summaryData of the Summary component, for a loaded receipt.
Summary(receipt, ledger) ==
  LET peopleMap == AddItems(<<>>, receipt.items, ledger)
      peopleList == [i \in 1..Len(peopleMap) |-> Prorate(peopleMap[i].val, receipt)]
  IN SortByTotal(peopleList, <<>>)

\* ---------------------------------------------------------------- session
VARIABLES
  receiptData,       \* App: <<>> for null, else <<receipt>>
  assignments,       \* App: the address in heap of the session ledger
  heap,              \* the ledger objects created so far, by address
  isReceiptLoading,  \* App
  error,             \* ReceiptPane: "" for null, else the message
  uploadPc,          \* handleFileUpload: "idle", "reading" or "parsing"
  inputValue,        \* ChatPane
  isProcessing,      \* ChatPane
  messages,          \* App: the roles of the transcript's messages
  chatPc,            \* handleSendMessage: "idle", "firstCall" or "secondCall"
  sent,              \* what the running handleSendMessage closed over
  lastCall,          \* history: the last processSplitCommand call that returned
  issued,            \* history: every item that receiptData has held
  uploads,           \* history: uploads started
  commands           \* history: commands sent

vars == <<receiptData, assignments, heap, isReceiptLoading, error, uploadPc, inputValue,
          isProcessing, messages, chatPc, sent, lastCall, issued, uploads, commands>>

uploadVars == <<receiptData, isReceiptLoading, error, uploadPc, issued, uploads>>
chatVars == <<assignments, heap, inputValue, isProcessing, messages, chatPc, sent,
              lastCall, commands>>

ParseError == "Failed to parse receipt. Please try a clearer image."

\* What the user may have typed into the command box.
InputTexts == {"", "   ", "Tom had the burger"}

\* String.prototype.trim
Trim(text) == IF text = "   " THEN "" ELSE text

\* The replies the interpreter gives in a whole-session run.
SessionReplies ==
  { Reply(TRUE, <<op>>) :
      op \in { Assign("item-0", <<"Tom">>), Assign("item-0", <<"Sam", "Tom">>),
               Assign("item-1", <<"Tom", "2">>), Assign("item-2", <<"Sam">>),
               Assign("item-1", <<>>), Assign("item-9", <<"Tom">>), Clear("item-0") } }
    \cup { Reply(TRUE, <<Assign("item-1", <<"Sam">>), Clear("item-1")>>), Reply(FALSE, <<>>) }

\* heap with the object at address a set to ledger (a is at most Len(h) + 1).
Store(h, a, ledger) ==
  [i \in 1..(IF a > Len(h) THEN a ELSE Len(h)) |-> IF i = a THEN ledger ELSE h[i]]

\* Mutant of NewAssignmentsAddr: const newAssignments = currentAssignments.
NewAssignmentsAliased(h, currentAssignments) == currentAssignments

\* The object JSON.parse returns is a new one.
NewAssignmentsAddr(h, currentAssignments) == Len(h) + 1

Init ==
  /\ receiptData = <<>>
  /\ heap = <<EmptyLedger>>
  /\ assignments = 1
  /\ isReceiptLoading = FALSE
  /\ error = ""
  /\ uploadPc = "idle"
  /\ inputValue = ""
  /\ isProcessing = FALSE
  /\ messages = <<>>
  /\ chatPc = "idle"
  /\ sent = <<>>
  /\ lastCall = <<>>
  /\ issued = {}
  /\ uploads = 0
  /\ commands = 0

\* handleFileUpload up to reader.readAsDataURL(file). The file input is
\* rendered only while isLoading is false.
StartUpload ==
  /\ ~isReceiptLoading
  /\ uploads < MaxUploads
  /\ isReceiptLoading' = TRUE
  /\ error' = ""
  /\ uploadPc' = "reading"
  /\ uploads' = uploads + 1
  /\ UNCHANGED <<receiptData, issued>>
  /\ UNCHANGED chatVars

\* reader.onload up to the await inside parseReceiptImage.
ReaderLoaded ==
  /\ uploadPc = "reading"
  /\ uploadPc' = "parsing"
  /\ UNCHANGED <<receiptData, isReceiptLoading, error, issued, uploads>>
  /\ UNCHANGED chatVars

\* The recognizer answers with raw: parseReceiptImage returns, then
\* setReceiptData(data) and, finally, setIsLoading(false).
RecognizerReturns(raw) ==
  /\ uploadPc = "parsing"
  /\ receiptData' = <<NormalizeReceipt(raw)>>
  /\ issued' = issued \cup {receiptData'[1].items[i] : i \in 1..Len(receiptData'[1].items)}
  /\ isReceiptLoading' = FALSE
  /\ uploadPc' = "idle"
  /\ UNCHANGED <<error, uploads>>
  /\ UNCHANGED chatVars

\* parseReceiptImage throws (no text, unparsable text, a failed request).
RecognizerFails ==
  /\ uploadPc = "parsing"
  /\ error' = ParseError
  /\ isReceiptLoading' = FALSE
  /\ uploadPc' = "idle"
  /\ UNCHANGED <<receiptData, issued, uploads>>
  /\ UNCHANGED chatVars

\* onChange of the command box, which is disabled while isProcessing.
TypeInput(text) ==
  /\ receiptData # <<>>
  /\ ~isProcessing
  /\ text # inputValue
  /\ inputValue' = text
  /\ UNCHANGED <<assignments, heap, isProcessing, messages, chatPc, sent, lastCall, commands>>
  /\ UNCHANGED uploadVars

\* if (!inputValue.trim() || !receiptData || isProcessing) return;
CanSend(text, receipt, processing) ==
  Trim(text) # "" /\ receipt # <<>> /\ ~processing

\* handleSendMessage up to the first await of processSplitCommand.
SendMessage ==
  /\ CanSend(inputValue, receiptData, isProcessing)
  /\ commands < MaxCommands
  /\ inputValue' = ""
  /\ messages' = Append(messages, "user")
  /\ isProcessing' = TRUE
  /\ sent' = <<[receiptData |-> receiptData[1], assignments |-> assignments]>>
  /\ chatPc' = "firstCall"
  /\ commands' = commands + 1
  /\ UNCHANGED <<assignments, heap, lastCall>>
  /\ UNCHANGED uploadVars

\* The first generateContent call settles; its answer is not read and its
\* failure is swallowed by the empty catch.
FirstCallSettles ==
  /\ chatPc = "firstCall"
  /\ chatPc' = "secondCall"
  /\ UNCHANGED <<assignments, heap, inputValue, isProcessing, messages, sent, lastCall, commands>>
  /\ UNCHANGED uploadVars

\* The second generateContent call answers with reply: processSplitCommand
\* applies it to a copy and returns; handleSendMessage installs the result.
SecondCallReturns(reply) ==
  /\ chatPc = "secondCall"
  /\ LET currentAssignments == sent[1].assignments
         newAssignments == NewAssignmentsAddr(heap, currentAssignments)
     IN /\ heap' = Store(heap, newAssignments,
                         ProcessSplitCommand(heap[currentAssignments], reply))
        /\ assignments' = newAssignments
        /\ lastCall' = <<[input |-> currentAssignments, before |-> heap[currentAssignments],
                          reply |-> reply, output |-> newAssignments]>>
  /\ messages' = Append(messages, "model")
  /\ isProcessing' = FALSE
  /\ chatPc' = "idle"
  /\ sent' = <<>>
  /\ UNCHANGED <<inputValue, commands>>
  /\ UNCHANGED uploadVars

\* Mutant of SecondCallFails: the handler without its finally block, so a
\* failed call leaves isProcessing set.
SecondCallFailsStaysBusy ==
  /\ chatPc = "secondCall"
  /\ messages' = Append(messages, "model")
  /\ chatPc' = "idle"
  /\ sent' = <<>>
  /\ UNCHANGED <<assignments, heap, inputValue, isProcessing, lastCall, commands>>
  /\ UNCHANGED uploadVars

\* The second call rejects or its text does not parse: the catch of
\* handleSendMessage adds the apology, finally clears isProcessing.
SecondCallFails ==
  /\ chatPc = "secondCall"
  /\ messages' = Append(messages, "model")
  /\ isProcessing' = FALSE
  /\ chatPc' = "idle"
  /\ sent' = <<>>
  /\ UNCHANGED <<assignments, heap, inputValue, lastCall, commands>>
  /\ UNCHANGED uploadVars

Next ==
  \/ StartUpload
  \/ ReaderLoaded
  \/ \E raw \in RawReceipts : RecognizerReturns(raw)
  \/ RecognizerFails
  \/ \E text \in InputTexts : TypeInput(text)
  \/ SendMessage
  \/ FirstCallSettles
  \/ chatPc = "secondCall" /\ \E reply \in SessionReplies : SecondCallReturns(reply)
  \/ SecondCallFails

Spec == Init /\ [][Next]_vars

\* ---- processSplitCommand as a function of its inputs --------------------
\* The ledgers given to processSplitCommand: what the applier builds from {}.
InputLedgers ==
  { ApplyOperations(EmptyLedger, <<Assign("item-0", a), Assign("item-1", b)>>) :
      a \in PeopleLists, b \in {<<>>, <<"Sam">>} }

\* A command is in flight against a loaded receipt and a ledger of InputLedgers.
InitApply ==
  /\ \E raw \in RawReceipts :
       /\ Len(raw.items) = 2
       /\ receiptData = <<NormalizeReceipt(raw)>>
  /\ \E ledger \in InputLedgers : heap = <<ledger>>
  /\ assignments = 1
  /\ isReceiptLoading = FALSE
  /\ error = ""
  /\ uploadPc = "idle"
  /\ inputValue = ""
  /\ isProcessing = TRUE
  /\ messages = <<"user">>
  /\ chatPc = "secondCall"
  /\ sent = <<[receiptData |-> receiptData[1], assignments |-> assignments]>>
  /\ lastCall = <<>>
  /\ issued = {receiptData[1].items[i] : i \in 1..Len(receiptData[1].items)}
  /\ uploads = 1
  /\ commands = 1

\* The replies the interpreter may give: every batch of at most MaxOps operations.
ApplyReplies == Replies(MaxOps)

NextApply ==
  \/ chatPc = "secondCall" /\ \E reply \in ApplyReplies : SecondCallReturns(reply)
  \/ SecondCallFails

SpecApply == InitApply /\ [][NextApply]_vars

\* ======================================================================
\* Properties
\* ======================================================================
\* The last processSplitCommand call that returned, and its parts.
Called == lastCall # <<>>
Before == lastCall[1].before
Batch == IF lastCall[1].reply.hasOperations THEN lastCall[1].reply.operations ELSE <<>>
After == heap[lastCall[1].output]

Range(q) == {q[i] : i \in 1..Len(q)}

\* Is item i without an entry in ledger / with one.
Absent(ledger, i) == i \notin DOMAIN ledger
Present(ledger, i) == i \in DOMAIN ledger

\* The sum of the shares an entry records.
RECURSIVE ShareSum(_)
ShareSum(entry) == IF entry = <<>> THEN RZero ELSE RAdd(Head(entry).val, ShareSum(Tail(entry)))

\* An operation that names its item and acts on it: a clear, or an assign
\* with at least one person.
Effective(op) ==
  /\ op.itemId # Undefined
  /\ \/ op.action = "clear"
     \/ op.action = "assign" /\ op.hasPeople /\ op.people # <<>>

\* An operation with a known action and every field the action requires.
WellFormed(op) ==
  /\ op.itemId # Undefined
  /\ \/ op.action = "clear"
     \/ op.action = "assign" /\ op.hasPeople

\* Does entry give exactly the listed people 1/n each, n the list's length.
EqualEntry(entry, people) ==
  /\ KeySet(entry) = Range(people)
  /\ \A p \in Range(people) : ValueOf(entry, p) = <<1, Len(people)>>

\* C1: after processSplitCommand returns, the ledger object it was given
\* holds what it held before the call, and the ledger returned is another
\* object.
InputLedgerNotMutated ==
  Called => /\ heap[lastCall[1].input] = Before
            /\ lastCall[1].output # lastCall[1].input

\* C1 witness: a call returned whose result differs from its input.
InputLedgerNotMutatedWitness ==
  /\ Called
  /\ Before # EmptyLedger
  /\ After # Before

\* C2: the operations of a batch that miss itemId or people, or whose action
\* is unknown, add and remove no key: the result is what the well-formed
\* operations of the batch alone produce.
MalformedOperationsIgnored ==
  Called => After = ApplyOperations(Before, SelectSeq(Batch, WellFormed))

\* C3: the entry of every item after a batch is decided by the last
\* effective operation of the batch on that item: absent after a clear,
\* the listed people in equal shares after an assign, and as in the input
\* ledger when no operation of the batch is effective on the item.
LastWriteWins ==
  Called =>
    \A i \in OpItemIds :
      LET on == { k \in 1..Len(Batch) : Batch[k].itemId = i /\ Effective(Batch[k]) }
      IN IF on = {}
         THEN /\ Present(After, i) <=> Present(Before, i)
              /\ Present(After, i) => After[i] = Before[i]
         ELSE LET last == Batch[CHOOSE k \in on : \A j \in on : j <= k]
              IN IF last.action = "clear" THEN Absent(After, i)
                 ELSE Present(After, i) /\ EqualEntry(After[i], last.people)

\* C3 witness: assign(i, [A]) then clear(i) ran on a ledger that had i, and
\* clear(i) then assign(i, [A]) is a batch of the model too.
LastWriteWinsWitness ==
  /\ Called
  /\ Batch = <<Assign("item-0", <<"Tom">>), Clear("item-0")>>
  /\ Present(Before, "item-0")
  /\ Absent(After, "item-0")
  /\ Reply(TRUE, <<Clear("item-0"), Assign("item-0", <<"Tom">>)>>) \in ApplyReplies

\* C4: a batch ending in assign(i, people), people not empty, leaves the
\* entry of i with exactly the listed people as keys; when that assign is
\* the whole batch every other item's entry is as it was.
AssignOverwrites ==
  Called /\ Batch # <<>> =>
    LET op == Batch[Len(Batch)]
    IN op.action = "assign" /\ Effective(op) =>
         /\ Present(After, op.itemId)
         /\ KeySet(After[op.itemId]) = Range(op.people)
         /\ Len(Batch) = 1 =>
              \A k \in (DOMAIN Before \cup DOMAIN After) \ {op.itemId} :
                Present(Before, k) /\ Present(After, k) /\ After[k] = Before[k]

\* C4 witness: an assign replaced an entry that held a person it does not
\* list, while another item had an entry.
AssignOverwritesWitness ==
  /\ Called
  /\ Len(Batch) = 1
  /\ Batch[1].action = "assign" /\ Effective(Batch[1])
  /\ Present(Before, Batch[1].itemId)
  /\ KeySet(Before[Batch[1].itemId]) \ Range(Batch[1].people) # {}
  /\ DOMAIN Before \ {Batch[1].itemId} # {}

\* C5: after assign(i, people) with n >= 1 people, every listed person holds
\* 1/n of item i and the shares of item i sum to 1, for every people list.
EqualSharesSumToOne ==
  Called /\ Len(Batch) = 1 /\ Batch[1].action = "assign" /\ Effective(Batch[1]) =>
    /\ \A p \in Range(Batch[1].people) :
         ValueOf(After[Batch[1].itemId], p) = <<1, Len(Batch[1].people)>>
    /\ ShareSum(After[Batch[1].itemId]) = <<1, 1>>

\* C6: after the batch [clear(i)] item i has no entry, a ledger without i
\* comes back equal, and the same batch on the result changes nothing.
ClearIdempotent ==
  Called /\ Len(Batch) = 1 /\ Batch[1].action = "clear" /\ Batch[1].itemId # Undefined =>
    /\ Absent(After, Batch[1].itemId)
    /\ Absent(Before, Batch[1].itemId) => After = Before
    /\ ProcessSplitCommand(After, lastCall[1].reply) = After

\* C6 witness: clear(i) ran on a ledger that had an entry for i.
ClearIdempotentWitness ==
  /\ Called
  /\ Batch = <<Clear("item-1")>>
  /\ Present(Before, "item-1")

\* C7: the batch [assign(i, [])] returns a ledger equal to the one given.
EmptyAssignIsNoOp ==
  Called /\ Len(Batch) = 1 /\ Batch[1].action = "assign" /\ Batch[1].hasPeople
         /\ Batch[1].people = <<>> =>
    After = Before

\* C7 witness: assign(i, []) ran on a ledger that had an entry for i.
EmptyAssignIsNoOpWitness ==
  /\ Called
  /\ Batch = <<Assign("item-0", <<>>)>>
  /\ Present(Before, "item-0")
  /\ Before["item-0"] # <<>>

\* The session ledger, and the items of the loaded receipt.
Ledger == heap[assignments]
Items == IF receiptData = <<>> THEN <<>> ELSE receiptData[1].items

\* Has item id a person assigned in ledger.
Assigned(ledger, id) == Present(ledger, id) /\ ledger[id] # <<>>

\* C8: in the state right after an upload installs a receipt, no item of
\* that receipt has a person assigned.
LedgerEmptyAfterUpload ==
  [][uploadPc = "parsing" /\ uploadPc' = "idle" /\ error' = ""
       => \A k \in 1..Len(receiptData'[1].items) :
            ~Assigned(heap'[assignments'], receiptData'[1].items[k].id)]_vars

\* The identifiers by zero-based position, written out.
PositionIds == <<"item-0", "item-1", "item-2">>

\* C9 as amended: the item at zero-based position k of the loaded receipt
\* has the id item-<k>, and no two items of the receipt share an id.
ItemIdsByPosition ==
  /\ \A k \in 1..Len(Items) : Items[k].id = PositionIds[k]
  /\ \A j, k \in 1..Len(Items) : Items[j].id = Items[k].id => j = k

\* C9 witness: a second upload has installed a receipt of three items.
ItemIdsByPositionWitness ==
  /\ uploads = 2
  /\ uploadPc = "idle"
  /\ Len(Items) = 3
  /\ Cardinality(issued) > 3

\* C9 as stated: an identifier, once given to an item, never names another
\* item of the session.
ItemIdsNeverReused ==
  \A a, b \in issued : a.id = b.id => a = b

\* C10: no row of the summary has an itemsTotal of zero.
SummaryExcludesZeroTotals ==
  receiptData # <<>> =>
    LET rows == Summary(receiptData[1], Ledger)
    IN \A r \in 1..Len(rows) : rows[r].itemsTotal # RZero

\* The people of a list in order of first occurrence.
RECURSIVE FirstOccurrences(_, _)
FirstOccurrences(people, acc) ==
  IF people = <<>> THEN acc
  ELSE FirstOccurrences(Tail(people),
                        IF Head(people) \in Range(acc) THEN acc ELSE Append(acc, Head(people)))

\* The order in which the keys of each entry were inserted, after one more
\* operation: a clear drops the item, an assign inserts the listed people
\* into a new entry in list order.
InsertionAfter(order, op) ==
  IF op.action = "clear" THEN DeleteKey(order, PropertyKey(op.itemId))
  ELSE IF op.action = "assign" /\ op.hasPeople /\ op.people # <<>>
  THEN SetKey(order, PropertyKey(op.itemId), FirstOccurrences(op.people, <<>>))
  ELSE order

RECURSIVE InsertionAfterAll(_, _)
InsertionAfterAll(order, ops) ==
  IF ops = <<>> THEN order
  ELSE InsertionAfterAll(InsertionAfter(order, Head(ops)), Tail(ops))

\* The order in which the people of each entry of the session ledger were
\* inserted into it: the copy made by JSON.parse inserts the keys of the old
\* entry in their own-key order, the batch inserts people in list order.
InsertionOrder ==
  IF Called
  THEN InsertionAfterAll([k \in DOMAIN Before |-> Keys(JsonRoundTrip(Before)[k])], Batch)
  ELSE [k \in DOMAIN Ledger |-> Keys(Ledger[k])]

\* The people in the order they are first met scanning the items in receipt
\* order and each item's people in insertion order.
RECURSIVE FirstSeen(_, _, _)
FirstSeen(items, order, acc) ==
  IF items = <<>> THEN acc
  ELSE LET people == IF Head(items).id \in DOMAIN order THEN order[Head(items).id] ELSE <<>>
       IN FirstSeen(Tail(items), order, FirstOccurrences(people, acc))

PositionIn(q, x) == CHOOSE i \in 1..Len(q) : q[i] = x

\* C11: the summary's rows are in descending order of total, and two rows
\* of equal total are in the order in which their people were first seen.
SummarySortedTiesFirstSeen ==
  receiptData # <<>> =>
    LET rows == Summary(receiptData[1], Ledger)
        seen == FirstSeen(Items, InsertionOrder, <<>>)
    IN \A i, j \in 1..Len(rows) :
         i < j =>
           /\ ~RLess(rows[i].total, rows[j].total)
           /\ rows[i].total = rows[j].total =>
                PositionIn(seen, rows[i].name) < PositionIn(seen, rows[j].name)

\* What person p owes for the items of a receipt: the sum over its items of
\* price times p's share in the item's entry, entries of other ids unread.
RECURSIVE ItemsTotalOf(_, _, _)
ItemsTotalOf(p, items, ledger) ==
  IF items = <<>> THEN RZero
  ELSE LET item == Head(items)
           cost == IF Present(ledger, item.id) /\ HasKey(ledger[item.id], p)
                   THEN RMul(RInt(item.price), ValueOf(ledger[item.id], p))
                   ELSE RZero
       IN RAdd(cost, ItemsTotalOf(p, Tail(items), ledger))

\* The people holding a key in the entry of some item of the receipt.
PeopleOnReceipt(items, ledger) ==
  UNION { KeySet(ledger[items[k].id]) : k \in {j \in 1..Len(items) : Present(ledger, items[j].id)} }

SharesInUnitInterval ==
  \A a \in 1..Len(heap) :
    \A k \in DOMAIN heap[a] :
      \A n \in 1..Len(heap[a][k]) :
        LET share == heap[a][k][n].val
        IN share[2] > 0 /\ share[1] > 0 /\ share[1] <= share[2]

\* C13 witness: a batch mixing assign and clear returned a ledger that
\* holds a whole share for one item and thirds for another.
SharesInUnitIntervalWitness ==
  /\ Called
  /\ \E k \in 1..Len(Batch) : Batch[k].action = "clear"
  /\ \E k \in 1..Len(Batch) : Batch[k].action = "assign" /\ Effective(Batch[k])
  /\ \E i, j \in DOMAIN After :
       /\ \E n \in 1..Len(After[i]) : After[i][n].val = <<1, 1>>
       /\ \E n \in 1..Len(After[j]) : After[j][n].val = <<1, 3>>

\* C14: a command is sent only when none is outstanding; while one is
\* outstanding the session ledger is the one the command was sent with;
\* the step that completes a command installs processSplitCommand's result
\* for the session ledger of that moment and the command's reply; the step
\* in which the interpreter call fails leaves the ledger as it is; both
\* steps end processing.
CommandsSerialized ==
  [][/\ isProcessing <=> chatPc # "idle"
     /\ commands' # commands => chatPc = "idle" /\ chatPc' # "idle"
     /\ chatPc # "idle" => sent[1].assignments = assignments
     /\ chatPc = "secondCall" /\ chatPc' = "idle" =>
          /\ ~isProcessing'
          /\ IF lastCall' # lastCall
             THEN /\ lastCall'[1].input = assignments
                  /\ lastCall'[1].output = assignments'
                  /\ heap'[assignments'] =
                       ProcessSplitCommand(heap[assignments], lastCall'[1].reply)
                  /\ \A a \in 1..Len(heap) : heap'[a] = heap[a]
             ELSE assignments' = assignments /\ heap' = heap
     /\ chatPc' # "idle" \/ chatPc = "idle" => assignments' = assignments /\ heap' = heap]_vars

\* C14 witness: a second command has completed and the session ledger holds
\* what the first installed and what the second added.
CommandsSerializedWitness ==
  /\ commands = 2
  /\ chatPc = "idle"
  /\ ~isProcessing
  /\ messages = <<"user", "model", "user", "model">>
  /\ Called
  /\ Batch = <<Assign("item-9", <<"Tom">>)>>
  /\ Present(Before, "item-0")
  /\ Present(Ledger, "item-0") /\ Present(Ledger, "item-9")

\* C15: in the step that installs a new ledger, the receipt the command
\* was sent with (the one its operations were interpreted against) is the
\* session's receipt.
InstalledForCurrentReceipt ==
  [][lastCall' # lastCall => receiptData' = <<sent[1].receiptData>>]_vars

====
